---- MODULE Spec2Model ----
(***************************************************************************)
(* The agent loop of index.mjs (Gemini variant, src/unnamed/part_000) and  *)
(* the tool catalogue of src/tools.mjs, as a state machine.                *)
(*                                                                         *)
(* One action per step of loop() between two suspension points (await).    *)
(* The model service, the issue tracker and the filesystem are the         *)
(* environment: their outcomes are drawn with \E from small sets.          *)
(***************************************************************************)
EXTENDS Integers, Sequences, FiniteSets, TLC

(***************************************************************************)
(* Program constants (src/unnamed/part_000:50-52, 93).                     *)
(***************************************************************************)
MAX_ITERATIONS == 50

TIMEOUT_MS == 300000

RATE_LIMIT_DELAY == 2000

RATE_LIMIT_COOLDOWN == 60000

(***************************************************************************)
(* Bound of the model: the longest batch of tool calls in one model turn.  *)
(***************************************************************************)
MaxCalls == 2

(***************************************************************************)
(* Text.  JavaScript strings are TLA+ strings; trim() and truthiness are   *)
(* computed, not assumed.                                                  *)
(***************************************************************************)
Whitespace == {" ", "\n", "\t"}

RECURSIVE TrimStart(_)
TrimStart(s) ==
  IF Len(s) = 0 THEN s
  ELSE IF SubSeq(s, 1, 1) \in Whitespace THEN TrimStart(SubSeq(s, 2, Len(s)))
  ELSE s

RECURSIVE TrimEnd(_)
TrimEnd(s) ==
  IF Len(s) = 0 THEN s
  ELSE IF SubSeq(s, Len(s), Len(s)) \in Whitespace
       THEN TrimEnd(SubSeq(s, 1, Len(s) - 1))
  ELSE s

\* String.prototype.trim
Trim(s) == TrimEnd(TrimStart(s))

\* the value of a property that an object does not have
Undefined == "<undefined>"

\* JavaScript truthiness of a string-or-undefined value
Truthy(s) == s # Undefined /\ Len(s) > 0

\* `x && x.trim().length > 0`
NonBlank(s) == Truthy(s) /\ Len(Trim(s)) > 0

(***************************************************************************)
(* The tool catalogue.                                                     *)
(***************************************************************************)
\* src/tools.mjs:16-243: entries are {definition: {name, ...}, handler}
toolDefinitions ==
  << [definition |-> [name |-> "think"],          handler |-> "think"],
     [definition |-> [name |-> "task_completed"], handler |-> "task_completed"],
     [definition |-> [name |-> "list_files"],     handler |-> "list_files"],
     [definition |-> [name |-> "read_file"],      handler |-> "read_file"],
     [definition |-> [name |-> "write_file"],     handler |-> "write_file"],
     [definition |-> [name |-> "update_file"],    handler |-> "update_file"],
     [definition |-> [name |-> "delete_file"],    handler |-> "delete_file"] >>

\* The catalogue as the spec's data model describes it (section 3:
\* ToolDefinition = {name (unique key), description, schema, handler}): the
\* shape index.mjs expects of the tools.mjs it imports getGeminiTools from,
\* an export src/tools.mjs does not have.
namedToolDefinitions ==
  << [name |-> "think",          handler |-> "think"],
     [name |-> "task_completed", handler |-> "task_completed"],
     [name |-> "list_files",     handler |-> "list_files"],
     [name |-> "read_file",      handler |-> "read_file"],
     [name |-> "write_file",     handler |-> "write_file"],
     [name |-> "update_file",    handler |-> "update_file"],
     [name |-> "delete_file",    handler |-> "delete_file"] >>

ToolsModules == {"src", "named"}

Catalogue(module) ==
  IF module = "src" THEN toolDefinitions ELSE namedToolDefinitions

\* the names the catalogue advertises, whatever the shape of its entries
CatalogueNames == { toolDefinitions[i].definition.name : i \in DOMAIN toolDefinitions }

\* `tool.name`: a property read; undefined when the entry has no such property
ToolName(tool) == IF "name" \in DOMAIN tool THEN tool.name ELSE Undefined

NotFound == [handler |-> Undefined]

\* Array.prototype.find: the first entry the predicate accepts, else undefined
RECURSIVE FindFrom(_, _, _)
FindFrom(defs, i, name) ==
  IF i > Len(defs) THEN NotFound
  ELSE IF ToolName(defs[i]) = name THEN defs[i]
  ELSE FindFrom(defs, i + 1, name)

\* toolDefinitions.find((tool) => tool.name === call.name)
FindTool(defs, name) == FindFrom(defs, 1, name)

(***************************************************************************)
(* The handlers of src/tools.mjs.  io is what the tracker and the          *)
(* filesystem do during one invocation:                                    *)
(*   io.comment  addIssueComment succeeds                                  *)
(*   io.close    closeIssue succeeds                                       *)
(*   io.fs       the filesystem call succeeds                              *)
(*   io.data     what readFile / readdir().join yields when it succeeds    *)
(* The result is [threw, value, closed]: closed says closeIssue ran and    *)
(* succeeded.                                                              *)
(***************************************************************************)
FileData == {" ", "<html></html>"}

IO == [comment : BOOLEAN, close : BOOLEAN, fs : BOOLEAN, data : FileData]

Returned(text) == [threw |-> FALSE, value |-> text, closed |-> FALSE]

Thrown == [threw |-> TRUE, value |-> "Error", closed |-> FALSE]

\* log (src/tools.mjs:10-13) rejects when addIssueComment rejects
LogThrows(io) == ~io.comment

\* a handler of the shape: log; try { fs } catch { log; return failure }
FsHandler(io, success, failure) ==
  IF LogThrows(io) THEN Thrown
  ELSE IF io.fs THEN Returned(success)
  ELSE Returned(failure)

Handler(name, io) ==
  CASE name = "think" ->
         IF LogThrows(io) THEN Thrown ELSE Returned("")
    [] name = "task_completed" ->
         IF LogThrows(io) THEN Thrown
         ELSE IF ~io.close THEN Thrown
         ELSE [threw |-> FALSE, value |-> "", closed |-> TRUE]
    [] name = "list_files"  -> FsHandler(io, io.data, "Failed to read file")
    [] name = "read_file"   -> FsHandler(io, io.data, "Failed to read file")
    [] name = "write_file"  ->
         FsHandler(io, "File created successfully", "Failed to create file")
    [] name = "update_file" ->
         FsHandler(io, "File updated successfully", "Failed to update file")
    [] name = "delete_file" ->
         FsHandler(io, "File deleted successfully", "Failed to delete file")

(***************************************************************************)
(* What the model service is given to answer with.  A call is a name and   *)
(* its arguments; each call of ModelCalls has arguments of its own, so a   *)
(* handler run with another call's arguments shows.  "frobnicate" is in no *)
(* catalogue.                                                              *)
(***************************************************************************)
ModelCalls ==
  { [name |-> "think",          args |-> "plan"],
    [name |-> "read_file",      args |-> "index.html"],
    [name |-> "task_completed", args |-> "done"],
    [name |-> "frobnicate",     args |-> "x"] }

\* response.functionCalls(): the calls of one model turn, in emission order
Batches == UNION { [1..k -> ModelCalls] : k \in 0..MaxCalls }

\* how one chat.sendMessage ends
SendOutcomes == {"ok", "rateLimited", "emptyContent", "error"}

\* what getIssueAsMarkdown yields; "<rejected>" stands for a rejected fetch
TaskTexts == {"Task: create index.html", "", " \n", "<rejected>"}

FallbackTask ==
  "Task: Create a nice simple landing page for FormAssembly in HTML (index.html) and Tailwind CSS."

DefaultTask ==
  "Task: Create a simple HTML landing page with Tailwind CSS. Use the available tools to complete this task."

ForceMessage == "You are a coding assistant that MUST use tools to complete tasks."

\* the console lines that tell how a run ended
TimeoutLog == "Timeout reached, stopping execution"

NoCallsLog == "No more function calls, ending conversation"

ForceLog == "AI didn't use tools, forcing tool usage..."

ForceFailedLog == "Failed to force tool usage"

CompletedLog == "Task marked as completed, ending execution"

NoResponsesLog == "No function responses to send, ending conversation"

EmptyContentLog == "Empty content error"

SendErrorLog == "Error sending function responses"

MaxIterationsLog == "Maximum iterations reached, stopping execution"

DoneLog == "Done"

ScriptFailedLog == "Script failed"

(***************************************************************************)
(* Text as the handlers of src/tools.mjs see it.  A string is a sequence   *)
(* of UTF-16 code units; in the strings below "H" stands for the code unit *)
(* of a high surrogate, "L" for that of a low surrogate and "?" for        *)
(* U+FFFD; every other character is itself.                                *)
(***************************************************************************)
Absent == << "<absent>" >>

Paths == {"index.html", "notes.txt"}

\* writeFile(path, string): the string is encoded as UTF-8.  The result is
\* the sequence of encoded scalar values: a surrogate pair is one scalar, a
\* surrogate without its partner is encoded as U+FFFD.
RECURSIVE Utf8EncodeFrom(_, _)
Utf8EncodeFrom(s, i) ==
  IF i > Len(s) THEN << >>
  ELSE LET unit == SubSeq(s, i, i)
       IN IF unit = "H" /\ i < Len(s) /\ SubSeq(s, i + 1, i + 1) = "L"
            THEN << "HL" >> \o Utf8EncodeFrom(s, i + 2)
          ELSE IF unit \in {"H", "L"}
            THEN << "?" >> \o Utf8EncodeFrom(s, i + 1)
          ELSE << unit >> \o Utf8EncodeFrom(s, i + 1)

Utf8Encode(s) == Utf8EncodeFrom(s, 1)

\* readFile(path, "utf8"): the scalars on disk decoded to a string
RECURSIVE Utf8Decode(_)
Utf8Decode(bytes) ==
  IF Len(bytes) = 0 THEN "" ELSE Head(bytes) \o Utf8Decode(Tail(bytes))

\* String.prototype.indexOf: the first position old occurs at, 0 when none
RECURSIVE IndexOfFrom(_, _, _)
IndexOfFrom(s, old, i) ==
  IF i + Len(old) - 1 > Len(s) THEN 0
  ELSE IF SubSeq(s, i, i + Len(old) - 1) = old THEN i
  ELSE IndexOfFrom(s, old, i + 1)

IndexOf(s, old) == IndexOfFrom(s, old, 1)

\* GetSubstitution of String.prototype.replace for a string pattern: in the
\* replacement text $$ is a dollar sign and $& the matched text.  (The two
\* patterns for the text around the match are left out: no replacement text
\* below holds a backquote or a quote.)  A pattern with no capture group
\* leaves $1..$99 as they are, like any other character.
RECURSIVE GetSubstitution(_, _, _)
GetSubstitution(new, i, matched) ==
  IF i > Len(new) THEN ""
  ELSE LET unit == SubSeq(new, i, i)
           next == IF i < Len(new) THEN SubSeq(new, i + 1, i + 1) ELSE ""
       IN IF unit = "$" /\ next = "$"
            THEN "$" \o GetSubstitution(new, i + 2, matched)
          ELSE IF unit = "$" /\ next = "&"
            THEN matched \o GetSubstitution(new, i + 2, matched)
          ELSE unit \o GetSubstitution(new, i + 1, matched)

\* contents.replace(old_string, new_string), both strings
Replace(contents, old, new) ==
  LET at == IndexOf(contents, old)
  IN IF at = 0 THEN contents
     ELSE LET before == SubSeq(contents, 1, at - 1)
              after  == SubSeq(contents, at + Len(old), Len(contents))
          IN before \o GetSubstitution(new, 1, old) \o after

\* no handler has been run directly
NoRun == [handler |-> Undefined]

VARIABLES
  pc,                 \* where loop() stands
  toolsModule,        \* which catalogue ./tools.mjs provides
  fetched,            \* how await getIssueAsMarkdown() ended, until the first turn
  iterations,         \* let iterations
  result,             \* let result: the ordinal of the model turn it holds, 0 for none
  functionCalls,      \* const functionCalls = response.functionCalls()
  idx,                \* position of the for-of loop over the calls
  functionResponses,  \* const functionResponses
  chat,               \* let chat: the conversation later messages go to
  message,            \* the message of the last sendMessage
  sentTo,             \* the conversation the last sendMessage was made on
  attempts,           \* how many times the last message was sent
  slept,              \* ms of delay() awaited right before the last sendMessage
  invoked,            \* what the dispatch of each call of this batch did, in order
  issueClosed,        \* closeIssue has succeeded
  logged,             \* the console lines above that were printed
  endReason,          \* which exit of loop() was taken
  exitCode,           \* the exit status of the process, -1 while it runs
  forcePrompts,       \* corrective re-prompts issued
  onlyToolTurns,      \* every turn read so far had calls, none task_completed
  files,              \* the working directory: what each path holds on disk
  ran,                \* the latest direct run of a handler of src/tools.mjs
  sinceRunStart       \* ms from the start of the run to line 101, until the
                      \* first check of line 105; -1 otherwise

vars ==
  << pc, toolsModule, fetched, iterations, result, functionCalls, idx, functionResponses,
     chat, message, sentTo, attempts, slept, invoked, issueClosed, logged,
     endReason, exitCode, forcePrompts, onlyToolTurns, files, ran,
     sinceRunStart >>

\* Init: the module is loaded, loop() has been called and has started its chat
Init ==
  /\ pc = "seed"
  /\ toolsModule \in ToolsModules
  /\ fetched = "<pending>"
  /\ iterations = 0
  /\ result = 0
  /\ functionCalls = << >>
  /\ idx = 0
  /\ functionResponses = << >>
  /\ chat = "chat"
  /\ message = ""
  /\ sentTo = "none"
  /\ attempts = 0
  /\ slept = 0
  /\ invoked = << >>
  /\ issueClosed = FALSE
  /\ logged = {}
  /\ endReason = "running"
  /\ exitCode = -1
  /\ forcePrompts = 0
  /\ onlyToolTurns = TRUE
  /\ files = [p \in Paths |-> Absent]
  /\ ran = NoRun
  /\ sinceRunStart = -1

(***************************************************************************)
(* The ways out of loop().                                                 *)
(***************************************************************************)
\* lines 275-277 and 281-282: what follows the while loop, then .then()
AfterLoop(its, lines) ==
  /\ logged' = logged \cup lines \cup
                 (IF its >= MAX_ITERATIONS THEN {MaxIterationsLog} ELSE {})
                 \cup {DoneLog}
  /\ exitCode' = 0
  /\ pc' = "done"

\* an exception leaves loop(): lines 283-287
Rejected ==
  /\ logged' = logged \cup {ScriptFailedLog}
  /\ exitCode' = 1
  /\ endReason' = "exception"
  /\ pc' = "done"

\* a model turn arrives: result = await chat.sendMessage(...).  The body of
\* the while loop ends with it, and the body's locals (functionCalls,
\* functionResponses, the for-of position) go out of scope.  What the turn
\* holds is drawn when the loop reads it (line 123).
Receive ==
  /\ result' = result + 1
  /\ functionCalls' = << >>
  /\ functionResponses' = << >>
  /\ invoked' = << >>
  /\ idx' = 0

\* no model turn arrives
NoTurn == UNCHANGED << result, functionCalls, functionResponses, invoked, idx >>

(***************************************************************************)
(* Seeding and the first model call (lines 68-101).                        *)
(***************************************************************************)
\* SeedText without the trim(): only the empty text is replaced
SeedText_NoTrim(text) ==
  LET markdown == IF text = "<rejected>" THEN FallbackTask ELSE text
  IN IF ~Truthy(markdown) THEN DefaultTask ELSE markdown

\* lines 68-83: the task text, with its two fallbacks
SeedText(text) ==
  LET markdown == IF text = "<rejected>" THEN FallbackTask ELSE text
  IN IF ~Truthy(markdown) \/ Len(Trim(markdown)) = 0 THEN DefaultTask ELSE markdown

Seed ==
  /\ pc = "seed"
  /\ \E text \in TaskTexts :
       /\ fetched' = text
       /\ message' = SeedText(text)
  /\ pc' = "initialSend"
  /\ UNCHANGED << toolsModule, files, ran, sinceRunStart, iterations, result, functionCalls, idx,
                  functionResponses, chat, sentTo, attempts, slept, invoked,
                  issueClosed, logged, endReason, exitCode, forcePrompts,
                  onlyToolTurns >>

\* how long the model may take to answer the first message
CallDurations == {0, TIMEOUT_MS + 1}

\* line 101 is reached when the first turn has arrived: by then the run has
\* lasted the cooldown, if there was one, and the time the model took
Started(at, cooldown) ==
  IF at = "loop"
    THEN \E took \in CallDurations : sinceRunStart' = cooldown + took
    ELSE UNCHANGED sinceRunStart

\* once the first turn has arrived nothing reads what the fetch gave
Forgotten(text, at) == IF at = "loop" THEN "<sent>" ELSE text

\* lines 88-97: result = await chat.sendMessage(markdown), first attempt
InitialSend ==
  /\ pc = "initialSend"
  /\ sentTo' = chat
  /\ attempts' = 1
  /\ slept' = 0
  /\ \E outcome \in SendOutcomes :
       IF outcome = "ok"
         THEN /\ Receive
              /\ pc' = "loop"
              /\ UNCHANGED << logged, endReason, exitCode >>
       ELSE IF outcome = "rateLimited"
         THEN /\ pc' = "initialRetry"
              /\ NoTurn
              /\ UNCHANGED << logged, endReason, exitCode >>
       ELSE /\ Rejected
            /\ NoTurn
  /\ Started(pc', slept')
  /\ fetched' = Forgotten(fetched, pc')
  /\ UNCHANGED << toolsModule, files, ran, iterations, chat, message, issueClosed,
                  forcePrompts, onlyToolTurns >>

\* InitialRetry that answers a second rate limit with one more cooldown
InitialRetry_Again ==
  /\ pc = "initialRetry"
  /\ attempts < 3
  /\ sentTo' = chat
  /\ attempts' = attempts + 1
  /\ slept' = RATE_LIMIT_COOLDOWN
  /\ \E outcome \in SendOutcomes :
       IF outcome = "ok"
         THEN /\ Receive
              /\ pc' = "loop"
              /\ UNCHANGED << logged, endReason, exitCode >>
       ELSE IF outcome = "rateLimited"
         THEN /\ pc' = "initialRetry"
              /\ NoTurn
              /\ UNCHANGED << logged, endReason, exitCode >>
       ELSE /\ Rejected
            /\ NoTurn
  /\ Started(pc', slept')
  /\ fetched' = Forgotten(fetched, pc')
  /\ UNCHANGED << toolsModule, files, ran, iterations, chat, message, issueClosed,
                  forcePrompts, onlyToolTurns >>

\* lines 92-94: the cooldown, then the same message once more
InitialRetry ==
  /\ pc = "initialRetry"
  /\ sentTo' = chat
  /\ attempts' = attempts + 1
  /\ slept' = RATE_LIMIT_COOLDOWN
  /\ \E outcome \in SendOutcomes :
       IF outcome = "ok"
         THEN /\ Receive
              /\ pc' = "loop"
              /\ UNCHANGED << logged, endReason, exitCode >>
       ELSE /\ Rejected
            /\ NoTurn
  /\ Started(pc', slept')
  /\ fetched' = Forgotten(fetched, pc')
  /\ UNCHANGED << toolsModule, files, ran, iterations, chat, message, issueClosed,
                  forcePrompts, onlyToolTurns >>

(***************************************************************************)
(* The head of the while loop (lines 103-170).                             *)
(***************************************************************************)
\* Date.now() - startTime, as the check of line 105 may read it: nothing is
\* awaited between line 101 and the first check
ElapsedAtCheck(its) == IF its = 0 THEN {0} ELSE {0, TIMEOUT_MS + 1}

\* a turn the stub model of the bounds test would give
IsToolTurn(batch) ==
  /\ Len(batch) > 0
  /\ \A i \in DOMAIN batch : batch[i].name # "task_completed"

\* LoopCondition with the comparison off by one
LoopCondition_OffByOne(its) == its <= MAX_ITERATIONS

\* line 103: while (iterations < MAX_ITERATIONS)
LoopCondition(its) == its < MAX_ITERATIONS

\* IsFirstIteration tested against the counter's value before the increment
IsFirstIteration_Zero(its) == its = 0

\* IsFirstIteration that also takes the iteration after it for the first
IsFirstIteration_OrSecond(its) == its <= 2

\* line 131: if (iterations === 1)
IsFirstIteration(its) == its = 1

\* line 103 is false: the loop ends on the iteration cap
LoopExit ==
  /\ pc = "loop"
  /\ ~LoopCondition(iterations)
  /\ endReason' = "maxIterations"
  /\ AfterLoop(iterations, {})
  /\ UNCHANGED << toolsModule, files, ran, sinceRunStart, fetched, iterations, result, functionCalls, idx,
                  functionResponses, chat, message, sentTo, attempts, slept,
                  invoked, issueClosed, forcePrompts, onlyToolTurns >>

\* lines 105-108
Timeout ==
  /\ pc = "loop"
  /\ LoopCondition(iterations)
  /\ \E elapsed \in ElapsedAtCheck(iterations) : elapsed > TIMEOUT_MS
  /\ endReason' = "timeout"
  /\ AfterLoop(iterations, {TimeoutLog})
  /\ UNCHANGED << toolsModule, files, ran, sinceRunStart, fetched, iterations, result, functionCalls, idx,
                  functionResponses, chat, message, sentTo, attempts, slept,
                  invoked, issueClosed, forcePrompts, onlyToolTurns >>

\* lines 103-123: the loop goes on into its body and reads the turn's calls
ReadsTurn(batch) ==
  /\ pc = "loop"
  /\ LoopCondition(iterations)
  /\ \E elapsed \in ElapsedAtCheck(iterations) : ~(elapsed > TIMEOUT_MS)
  /\ iterations' = iterations + 1
  /\ functionCalls' = batch
  /\ sinceRunStart' = -1
  /\ onlyToolTurns' = (onlyToolTurns /\ IsToolTurn(batch))

\* lines 126-133: no calls on the first iteration; the re-prompt is next
ForceToolUse ==
  /\ ReadsTurn(<< >>)
  /\ IsFirstIteration(iterations')
  /\ logged' = logged \cup {ForceLog}
  /\ forcePrompts' = forcePrompts + 1
  /\ pc' = "force"
  /\ UNCHANGED << toolsModule, files, ran, fetched, result, idx, functionResponses, chat, message,
                  sentTo, attempts, slept, invoked, issueClosed, endReason,
                  exitCode >>

\* NoToolCalls that takes the end of the conversation for a completion and
\* closes the issue
NoToolCalls_Completes ==
  /\ ReadsTurn(<< >>)
  /\ ~IsFirstIteration(iterations')
  /\ endReason' = "noToolCalls"
  /\ AfterLoop(iterations', {NoCallsLog})
  /\ UNCHANGED << toolsModule, files, ran, fetched, result, idx, functionResponses, chat, message,
                  sentTo, attempts, slept, invoked, forcePrompts >>
  /\ issueClosed' = TRUE

\* lines 126-131, 168-169: no calls on a later iteration
NoToolCalls ==
  /\ ReadsTurn(<< >>)
  /\ ~IsFirstIteration(iterations')
  /\ endReason' = "noToolCalls"
  /\ AfterLoop(iterations', {NoCallsLog})
  /\ UNCHANGED << toolsModule, files, ran, fetched, result, idx, functionResponses, chat, message,
                  sentTo, attempts, slept, invoked, issueClosed, forcePrompts >>

\* lines 172-175: the for-of loop over the calls starts
BeginDispatch ==
  /\ \E batch \in Batches \ {<< >>} : ReadsTurn(batch)
  /\ functionResponses' = << >>
  /\ invoked' = << >>
  /\ idx' = 1
  /\ pc' = "dispatch"
  /\ UNCHANGED << toolsModule, files, ran, fetched, result, chat, message, sentTo, attempts, slept,
                  issueClosed, logged, endReason, exitCode, forcePrompts >>

(***************************************************************************)
(* The forced re-prompt (lines 135-165).                                   *)
(***************************************************************************)
NewChat == "newChat"

\* lines 133-164: delay, a new chat, the force message, first attempt
ForceSend ==
  /\ pc = "force"
  /\ message' = ForceMessage
  /\ sentTo' = NewChat
  /\ attempts' = 1
  /\ slept' = RATE_LIMIT_DELAY
  /\ \E outcome \in SendOutcomes :
       IF outcome = "ok"
         THEN /\ Receive
              /\ chat' = NewChat
              /\ pc' = "loop"
              /\ UNCHANGED << logged, endReason, exitCode >>
       ELSE IF outcome = "rateLimited"
         THEN /\ pc' = "forceRetry"
              /\ NoTurn
              /\ UNCHANGED << chat, logged, endReason, exitCode >>
       ELSE /\ endReason' = "forceFailed"
            /\ AfterLoop(iterations, {ForceFailedLog})
            /\ NoTurn
            /\ UNCHANGED chat
  /\ UNCHANGED << toolsModule, files, ran, sinceRunStart, fetched, iterations, issueClosed, forcePrompts,
                  onlyToolTurns >>

\* ForceRetry without line 159: the retry's answer is taken, the old chat kept
ForceRetry_KeepsChat ==
  /\ pc = "forceRetry"
  /\ sentTo' = NewChat
  /\ attempts' = attempts + 1
  /\ slept' = RATE_LIMIT_COOLDOWN
  /\ \E outcome \in SendOutcomes :
       IF outcome = "ok"
         THEN /\ Receive
              /\ UNCHANGED chat
              /\ pc' = "loop"
              /\ UNCHANGED << logged, endReason, exitCode >>
       ELSE /\ Rejected
            /\ NoTurn
            /\ UNCHANGED chat
  /\ UNCHANGED << toolsModule, files, ran, sinceRunStart, fetched, iterations, message, issueClosed, forcePrompts,
                  onlyToolTurns >>

\* lines 155-159: the cooldown, then the force message once more
ForceRetry ==
  /\ pc = "forceRetry"
  /\ sentTo' = NewChat
  /\ attempts' = attempts + 1
  /\ slept' = RATE_LIMIT_COOLDOWN
  /\ \E outcome \in SendOutcomes :
       IF outcome = "ok"
         THEN /\ Receive
              /\ chat' = NewChat
              /\ pc' = "loop"
              /\ UNCHANGED << logged, endReason, exitCode >>
       ELSE /\ Rejected
            /\ NoTurn
            /\ UNCHANGED chat
  /\ UNCHANGED << toolsModule, files, ran, sinceRunStart, fetched, iterations, message, issueClosed, forcePrompts,
                  onlyToolTurns >>

(***************************************************************************)
(* Dispatching the calls of one model turn (lines 175-230).                *)
(***************************************************************************)
\* lines 191-199
NotFoundResponse(name) ==
  [name |-> name, error |-> "Tool " \o name \o " not found",
   output |-> "Tool not available"]

\* NormalizeOutput without the trim(): only the empty string is replaced
NormalizeOutput_NoTrim(toolResult) ==
  IF Truthy(toolResult) THEN toolResult ELSE "Operation completed successfully"

\* lines 206-209: the output recorded for what a handler returned
NormalizeOutput(toolResult) ==
  IF NonBlank(toolResult) THEN toolResult ELSE "Operation completed successfully"

\* lines 210-217
SuccessResponse(name, toolResult) ==
  [name |-> name, error |-> Undefined, output |-> NormalizeOutput(toolResult)]

\* lines 218-228
FailureResponse(name, errorMessage) ==
  [name |-> name, error |-> errorMessage, output |-> "Tool execution failed"]

\* what the dispatch of one call did: the handler it ran (Undefined when none
\* ran), the arguments it passed, and how the handler ended
NoInvocation(call) ==
  [call |-> call.name, handler |-> Undefined, args |-> Undefined,
   threw |-> FALSE, value |-> Undefined]

Invocation(call, tool, out) ==
  [call |-> call.name, handler |-> tool.handler, args |-> call.args,
   threw |-> out.threw, value |-> out.value]

\* the for-of loop moves to the next call, or ends
NextCall ==
  /\ idx' = idx + 1
  /\ pc' = (IF idx + 1 > Len(functionCalls) THEN "sendResults" ELSE "dispatch")
  /\ UNCHANGED << issueClosed, logged, endReason, exitCode >>

\* CompleteTask without its return: the for-of loop goes on after the handler
CompleteTask_NoReturn(call, tool, out) ==
  IF tool.handler # Undefined /\ out.threw
    THEN /\ invoked' = Append(invoked, Invocation(call, tool, out))
         /\ Rejected
         /\ UNCHANGED << issueClosed, idx, functionResponses >>
    ELSE /\ invoked' = Append(invoked, IF tool.handler # Undefined
                                         THEN Invocation(call, tool, out)
                                         ELSE NoInvocation(call))
         /\ issueClosed' = (issueClosed \/ (tool.handler # Undefined /\ out.closed))
         /\ idx' = idx + 1
         /\ pc' = (IF idx + 1 > Len(functionCalls) THEN "sendResults" ELSE "dispatch")
         /\ UNCHANGED << functionResponses, logged, endReason, exitCode >>

\* lines 179-186: the call is task_completed
CompleteTask(call, tool, out) ==
  IF tool.handler # Undefined /\ out.threw
    THEN /\ invoked' = Append(invoked, Invocation(call, tool, out))
         /\ Rejected
         /\ UNCHANGED << issueClosed, idx, functionResponses >>
    ELSE /\ invoked' = Append(invoked, IF tool.handler # Undefined
                                         THEN Invocation(call, tool, out)
                                         ELSE NoInvocation(call))
         /\ issueClosed' = (issueClosed \/ (tool.handler # Undefined /\ out.closed))
         /\ logged' = logged \cup {CompletedLog, DoneLog}
         /\ endReason' = "completed"
         /\ exitCode' = 0
         /\ pc' = "done"
         /\ UNCHANGED << idx, functionResponses >>

\* ToolNotFound that records no result before it continues
ToolNotFound_NoResult(call) ==
  /\ UNCHANGED functionResponses
  /\ invoked' = Append(invoked, NoInvocation(call))
  /\ NextCall

\* ToolNotFound that throws, as the loop of the OpenAI variant does
ToolNotFound_Throws(call) ==
  /\ invoked' = Append(invoked, NoInvocation(call))
  /\ Rejected
  /\ UNCHANGED << issueClosed, idx, functionResponses >>

\* lines 188-201: no tool of that name
ToolNotFound(call) ==
  /\ functionResponses' = Append(functionResponses, NotFoundResponse(call.name))
  /\ invoked' = Append(invoked, NoInvocation(call))
  /\ NextCall

\* RunTool that records its result ahead of the earlier ones
RunTool_Prepend(call, tool, out) ==
  /\ functionResponses' =
       << IF out.threw THEN FailureResponse(call.name, out.value)
                       ELSE SuccessResponse(call.name, out.value) >>
         \o functionResponses
  /\ invoked' = Append(invoked, Invocation(call, tool, out))
  /\ NextCall

\* lines 203-229: the handler runs inside try/catch
RunTool(call, tool, out) ==
  /\ functionResponses' =
       Append(functionResponses,
              IF out.threw THEN FailureResponse(call.name, out.value)
                           ELSE SuccessResponse(call.name, out.value))
  /\ invoked' = Append(invoked, Invocation(call, tool, out))
  /\ NextCall

\* one pass of the for-of body (lines 175-230): the call at idx
ProcessCall ==
  /\ pc = "dispatch"
  /\ \E io \in IO :
       LET call == functionCalls[idx]
           tool == FindTool(Catalogue(toolsModule), call.name)
           out  == Handler(tool.handler, io)
       IN IF call.name = "task_completed" THEN CompleteTask(call, tool, out)
          ELSE IF tool.handler = Undefined THEN ToolNotFound(call)
          ELSE RunTool(call, tool, out)
  /\ UNCHANGED << toolsModule, files, ran, sinceRunStart, fetched, iterations, result, functionCalls, chat, message,
                  sentTo, attempts, slept, forcePrompts, onlyToolTurns >>

(***************************************************************************)
(* Sending the results back (lines 232-272).                               *)
(***************************************************************************)
\* lines 239-246
ValidateResponses(responses) ==
  [i \in DOMAIN responses |->
     IF ~NonBlank(responses[i].output)
       THEN [responses[i] EXCEPT !.output = "Success"]
       ELSE responses[i]]

\* lines 232-254: the results are validated, then the pacing delay
PrepareResults ==
  /\ pc = "sendResults"
  /\ IF Len(functionResponses) = 0
       THEN /\ endReason' = "noResponses"
            /\ AfterLoop(iterations, {NoResponsesLog})
            /\ UNCHANGED functionResponses
       ELSE /\ functionResponses' = ValidateResponses(functionResponses)
            /\ pc' = "sending"
            /\ UNCHANGED << logged, endReason, exitCode >>
  /\ UNCHANGED << toolsModule, files, ran, sinceRunStart, fetched, iterations, result, functionCalls, idx, chat,
                  message, sentTo, attempts, slept, invoked, issueClosed,
                  forcePrompts, onlyToolTurns >>

\* SendResults without the delay of line 254
SendResults_NoDelay ==
  /\ pc = "sending"
  /\ message' = "functionResponses"
  /\ sentTo' = chat
  /\ attempts' = 1
  /\ slept' = 0
  /\ \E outcome \in SendOutcomes :
       IF outcome = "ok"
         THEN /\ Receive
              /\ pc' = "loop"
              /\ UNCHANGED << logged, endReason, exitCode >>
       ELSE IF outcome = "rateLimited"
         THEN /\ pc' = "resultsRetry"
              /\ NoTurn
              /\ UNCHANGED << logged, endReason, exitCode >>
       ELSE /\ endReason' = "sendFailed"
            /\ AfterLoop(iterations,
                         IF outcome = "emptyContent"
                           THEN {EmptyContentLog} ELSE {SendErrorLog})
            /\ NoTurn
  /\ UNCHANGED << toolsModule, files, ran, sinceRunStart, fetched, iterations, chat, issueClosed, forcePrompts,
                  onlyToolTurns >>

\* lines 255-272: result = await chat.sendMessage(functionResponses)
SendResults ==
  /\ pc = "sending"
  /\ message' = "functionResponses"
  /\ sentTo' = chat
  /\ attempts' = 1
  /\ slept' = RATE_LIMIT_DELAY
  /\ \E outcome \in SendOutcomes :
       IF outcome = "ok"
         THEN /\ Receive
              /\ pc' = "loop"
              /\ UNCHANGED << logged, endReason, exitCode >>
       ELSE IF outcome = "rateLimited"
         THEN /\ pc' = "resultsRetry"
              /\ NoTurn
              /\ UNCHANGED << logged, endReason, exitCode >>
       ELSE /\ endReason' = "sendFailed"
            /\ AfterLoop(iterations,
                         IF outcome = "emptyContent"
                           THEN {EmptyContentLog} ELSE {SendErrorLog})
            /\ NoTurn
  /\ UNCHANGED << toolsModule, files, ran, sinceRunStart, fetched, iterations, chat, issueClosed, forcePrompts,
                  onlyToolTurns >>

\* ResultsRetry that answers a second rate limit by sending once more
ResultsRetry_Resend ==
  /\ pc = "resultsRetry"
  /\ sentTo' = chat
  /\ attempts' = attempts + 1
  /\ slept' = RATE_LIMIT_COOLDOWN
  /\ \E outcome \in SendOutcomes :
       IF outcome = "ok"
         THEN /\ Receive
              /\ pc' = "loop"
              /\ UNCHANGED << logged, endReason, exitCode >>
       ELSE IF outcome = "rateLimited"
         THEN /\ pc' = "sending"
              /\ NoTurn
              /\ UNCHANGED << logged, endReason, exitCode >>
       ELSE /\ Rejected
            /\ NoTurn
  /\ UNCHANGED << toolsModule, files, ran, sinceRunStart, fetched, iterations, chat, message, issueClosed,
                  forcePrompts, onlyToolTurns >>

\* lines 258-261: the cooldown, then the results once more
ResultsRetry ==
  /\ pc = "resultsRetry"
  /\ sentTo' = chat
  /\ attempts' = attempts + 1
  /\ slept' = RATE_LIMIT_COOLDOWN
  /\ \E outcome \in SendOutcomes :
       IF outcome = "ok"
         THEN /\ Receive
              /\ pc' = "loop"
              /\ UNCHANGED << logged, endReason, exitCode >>
       ELSE /\ Rejected
            /\ NoTurn
  /\ UNCHANGED << toolsModule, files, ran, sinceRunStart, fetched, iterations, chat, message, issueClosed,
                  forcePrompts, onlyToolTurns >>

Next ==
  \/ Seed
  \/ InitialSend
  \/ InitialRetry
  \/ LoopExit
  \/ Timeout
  \/ ForceToolUse
  \/ NoToolCalls
  \/ BeginDispatch
  \/ ForceSend
  \/ ForceRetry
  \/ ProcessCall
  \/ PrepareResults
  \/ SendResults
  \/ ResultsRetry

Spec == Init /\ [][Next]_vars

\* every awaited model call, delay and handler returns or fails, and the
\* event loop then runs the continuation: a step that can be taken is taken
SpecFair == Spec /\ WF_vars(Next)

(***************************************************************************)
(* The loop() of the OpenAI variant of index.mjs                           *)
(* (src/.github/workflows/issue.yml:66-112), on the same variables:        *)
(* functionCalls holds response.output and functionResponses what was      *)
(* pushed to `input` since the last model call.  That variant reads the    *)
(* catalogue as src/tools.mjs shapes it and has no iteration cap; MaxTurns *)
(* caps the model turns explored.                                          *)
(***************************************************************************)
MaxTurns == 3

\* response.output items: function calls, and an item that is none
OutputItems ==
  { [type |-> "function_call", name |-> c.name, args |-> c.args] : c \in ModelCalls }
    \cup { [type |-> "message", name |-> Undefined, args |-> Undefined] }

\* response.output of a turn: the service gives every item a call_id of its own
ResponseOutputs(turn) ==
  { [i \in DOMAIN items |->
       [type |-> items[i].type, name |-> items[i].name, args |-> items[i].args,
        call_id |-> << turn, i >>]] :
      items \in UNION { [1..k -> OutputItems] : k \in 1..MaxCalls } }

\* toolDefinitions.find((tool) => tool.definition.name === item.name)
RECURSIVE FindByDefinitionFrom(_, _, _)
FindByDefinitionFrom(defs, i, name) ==
  IF i > Len(defs) THEN NotFound
  ELSE IF defs[i].definition.name = name THEN defs[i]
  ELSE FindByDefinitionFrom(defs, i + 1, name)

FindByDefinition(defs, name) == FindByDefinitionFrom(defs, 1, name)

FunctionCallOutput(item, out) ==
  [type |-> "function_call_output", call_id |-> item.call_id, output |-> out.value]

ErrorLog == "error"

\* .catch((error) => console.error(error)): the process ends normally
Caught ==
  /\ logged' = logged \cup {ErrorLog}
  /\ exitCode' = 0
  /\ endReason' = "exception"
  /\ pc' = "done"

\* the OpenAI variant is the program run: lines 75-78 build `input`
SeedInput ==
  /\ pc = "seed"
  /\ toolsModule = "src"
  /\ iterations = 0
  /\ \E resolved \in BOOLEAN :
       IF resolved
         THEN /\ pc' = "create"
              /\ UNCHANGED << logged, exitCode, endReason >>
         ELSE Caught
  /\ UNCHANGED << toolsModule, files, ran, sinceRunStart, fetched, iterations, result, functionCalls, idx,
                  functionResponses, chat, message, sentTo, attempts, slept,
                  invoked, issueClosed, forcePrompts, onlyToolTurns >>

\* lines 81-86: await openai.responses.create({ input, ... })
CreateResponse ==
  /\ pc = "create"
  /\ result < MaxTurns
  /\ \E answered \in BOOLEAN :
       IF answered
         THEN /\ \E output \in ResponseOutputs(result + 1) : functionCalls' = output
              /\ result' = result + 1
              /\ idx' = 1
              /\ functionResponses' = << >>
              /\ invoked' = << >>
              /\ pc' = "items"
              /\ UNCHANGED << logged, exitCode, endReason >>
         ELSE /\ Caught
              /\ UNCHANGED << result, functionCalls, idx, functionResponses, invoked >>
  /\ UNCHANGED << toolsModule, files, ran, sinceRunStart, fetched, iterations, chat, message, sentTo, attempts,
                  slept, issueClosed, forcePrompts, onlyToolTurns >>

\* on to the next item; past the last one, back to the head of while (true)
NextItem(pushed) ==
  /\ functionResponses' = pushed
  /\ idx' = idx + 1
  /\ pc' = IF idx + 1 > Len(functionCalls) THEN "create" ELSE "items"
  /\ UNCHANGED << logged, exitCode, endReason >>

\* lines 88-106: one pass of the for-of loop over response.output
ProcessItem ==
  /\ pc = "items"
  /\ idx <= Len(functionCalls)
  /\ LET item == functionCalls[idx]
         pushed == Append(functionResponses, item)
         tool == FindByDefinition(Catalogue(toolsModule), item.name)
     IN  IF item.type # "function_call"
           THEN /\ NextItem(pushed)
                /\ UNCHANGED << invoked, issueClosed >>
           ELSE \E parsed \in BOOLEAN, io \in IO :
                  IF ~parsed \/ tool = NotFound
                    THEN /\ Caught
                         /\ functionResponses' = pushed
                         /\ UNCHANGED << idx, invoked, issueClosed >>
                    ELSE LET out == Handler(tool.handler, io)
                         IN  /\ invoked' = Append(invoked, Invocation(item, tool, out))
                             /\ issueClosed' = (issueClosed \/ out.closed)
                             /\ IF out.threw
                                  THEN /\ Caught
                                       /\ functionResponses' = pushed
                                       /\ UNCHANGED idx
                                  ELSE IF item.name = "task_completed"
                                    THEN /\ functionResponses' =
                                              Append(pushed, FunctionCallOutput(item, out))
                                         /\ logged' = logged \cup {DoneLog}
                                         /\ exitCode' = 0
                                         /\ endReason' = "completed"
                                         /\ pc' = "done"
                                         /\ UNCHANGED idx
                                    ELSE NextItem(Append(pushed, FunctionCallOutput(item, out)))
  /\ UNCHANGED << toolsModule, files, ran, sinceRunStart, fetched, iterations, result, functionCalls, chat, message,
                  sentTo, attempts, slept, forcePrompts, onlyToolTurns >>

NextOpenAI ==
  \/ SeedInput
  \/ CreateResponse
  \/ ProcessItem

\* either variant of index.mjs is the program run
SpecLoops == Init /\ [][Next \/ NextOpenAI]_vars

(***************************************************************************)
(* The handlers of src/tools.mjs run directly, one after another, on a     *)
(* working directory: what each does to the files and what it returns.     *)
(* `ran` is the latest run: the handler, its arguments, whether the        *)
(* storage did what it was asked (stored), and how the handler ended.      *)
(***************************************************************************)
\* what the model may pass as file contents, old_string and new_string
WriteContents == {"", "foo baz foo", "aHLb", "aH"}

OldStrings == {"foo", "zzz"}

NewStrings == {"bar", "$&", "$$"}

Args(path, contents, old, new) ==
  [path |-> path, contents |-> contents, old_string |-> old, new_string |-> new]

\* the tracker's part of a run: whether addIssueComment and closeIssue succeed
Tracker == [comment : BOOLEAN, close : BOOLEAN]

\* the io of a run whose filesystem call ended as given
RunIO(tracker, stored, data) ==
  [comment |-> tracker.comment, close |-> tracker.close, fs |-> stored, data |-> data]

\* the run is recorded; the loop's own variables are not involved
Ran(name, args, io) ==
  LET out == Handler(name, io)
  IN /\ ran' = [handler |-> name, args |-> args, stored |-> io.comment /\ io.fs,
                threw |-> out.threw, value |-> out.value]
     /\ issueClosed' = (issueClosed \/ out.closed)
     /\ UNCHANGED << pc, toolsModule, sinceRunStart, fetched, iterations, result, functionCalls,
                     idx, functionResponses, chat, message, sentTo, attempts,
                     slept, invoked, logged, endReason, exitCode, forcePrompts,
                     onlyToolTurns >>

\* readdir(".").join("\n"): the names of the files there are
Listing(dir) ==
  LET present(p) == dir[p] # Absent
  IN IF present("index.html") /\ present("notes.txt") THEN "index.html\nnotes.txt"
     ELSE IF present("index.html") THEN "index.html"
     ELSE IF present("notes.txt") THEN "notes.txt"
     ELSE ""

\* src/tools.mjs:38-41
Think ==
  /\ pc = "tools"
  /\ \E tracker \in Tracker :
       Ran("think", Args(Undefined, Undefined, Undefined, Undefined),
           RunIO(tracker, TRUE, ""))
  /\ UNCHANGED files

\* src/tools.mjs:64-68
TaskCompleted ==
  /\ pc = "tools"
  /\ \E tracker \in Tracker :
       Ran("task_completed", Args(Undefined, Undefined, Undefined, Undefined),
           RunIO(tracker, TRUE, ""))
  /\ UNCHANGED files

\* src/tools.mjs:91-100
ListFiles ==
  /\ pc = "tools"
  /\ \E tracker \in Tracker, permitted \in BOOLEAN :
       Ran("list_files", Args(".", Undefined, Undefined, Undefined),
           RunIO(tracker, permitted, Listing(files)))
  /\ UNCHANGED files

\* src/tools.mjs:123-132
ReadFile ==
  /\ pc = "tools"
  /\ \E path \in Paths, tracker \in Tracker, permitted \in BOOLEAN :
       LET stored == permitted /\ files[path] # Absent
           data == IF stored THEN Utf8Decode(files[path]) ELSE ""
       IN Ran("read_file", Args(path, Undefined, Undefined, Undefined),
              RunIO(tracker, stored, data))
  /\ UNCHANGED files

\* src/tools.mjs:159-168
WriteFile ==
  /\ pc = "tools"
  /\ \E path \in Paths, contents \in WriteContents,
        tracker \in Tracker, permitted \in BOOLEAN :
       /\ Ran("write_file", Args(path, contents, Undefined, Undefined),
              RunIO(tracker, permitted, ""))
       /\ files' = IF tracker.comment /\ permitted
                     THEN [files EXCEPT ![path] = Utf8Encode(contents)]
                     ELSE files

\* src/tools.mjs:199-211
UpdateFile ==
  /\ pc = "tools"
  /\ \E path \in Paths, old \in OldStrings, new \in NewStrings,
        tracker \in Tracker, permitted \in BOOLEAN :
       LET stored == permitted /\ files[path] # Absent
       IN /\ Ran("update_file", Args(path, Undefined, old, new),
                 RunIO(tracker, stored, ""))
          /\ files' = IF tracker.comment /\ stored
                        THEN [files EXCEPT ![path] =
                                Utf8Encode(Replace(Utf8Decode(files[path]), old, new))]
                        ELSE files

\* src/tools.mjs:232-241
DeleteFile ==
  /\ pc = "tools"
  /\ \E path \in Paths, tracker \in Tracker, permitted \in BOOLEAN :
       LET stored == permitted /\ files[path] # Absent
       IN /\ Ran("delete_file", Args(path, Undefined, Undefined, Undefined),
                 RunIO(tracker, stored, ""))
          /\ files' = IF tracker.comment /\ stored
                        THEN [files EXCEPT ![path] = Absent]
                        ELSE files

NextTools ==
  \/ Think
  \/ TaskCompleted
  \/ ListFiles
  \/ ReadFile
  \/ WriteFile
  \/ UpdateFile
  \/ DeleteFile

\* the handlers are run on a working directory that starts empty
InitTools ==
  /\ pc = "tools"
  /\ toolsModule = "src"
  /\ fetched = "<pending>"
  /\ iterations = 0
  /\ result = 0
  /\ functionCalls = << >>
  /\ idx = 0
  /\ functionResponses = << >>
  /\ chat = "chat"
  /\ message = ""
  /\ sentTo = "none"
  /\ attempts = 0
  /\ slept = 0
  /\ invoked = << >>
  /\ issueClosed = FALSE
  /\ logged = {}
  /\ endReason = "running"
  /\ exitCode = -1
  /\ forcePrompts = 0
  /\ onlyToolTurns = TRUE
  /\ files = [p \in Paths |-> Absent]
  /\ ran = NoRun
  /\ sinceRunStart = -1

SpecTools == InitTools /\ [][NextTools]_vars

(***************************************************************************)
(* Properties.                                                             *)
(***************************************************************************)
\* the steps of loop() that call chat.sendMessage
SendPcs ==
  {"initialSend", "initialRetry", "force", "forceRetry", "sending", "resultsRetry"}

\* the steps of loop() inside the for-of loop and after it
BatchPcs == {"dispatch", "sendResults", "sending", "resultsRetry"}

\* every call of the turn read has one result, of its name, at its position
ResultsMatchCalls ==
  /\ Len(functionResponses) = Len(functionCalls)
  /\ \A i \in DOMAIN functionCalls : functionResponses[i].name = functionCalls[i].name

\* the OpenAI variant: what was pushed to `input` since the last model call is
\* response.output with, for each function call, one output of its call_id,
\* and no output of any other call
OutputsOf(item) ==
  { j \in DOMAIN functionResponses :
      /\ functionResponses[j].type = "function_call_output"
      /\ functionResponses[j].call_id = item.call_id }

OutputsMatchCalls ==
  /\ \A i \in DOMAIN functionCalls :
       functionCalls[i].type = "function_call" =>
         Cardinality(OutputsOf(functionCalls[i])) = 1
  /\ \A j \in DOMAIN functionResponses :
       functionResponses[j].type = "function_call_output" =>
         \E i \in DOMAIN functionCalls :
           /\ functionCalls[i].type = "function_call"
           /\ functionCalls[i].call_id = functionResponses[j].call_id

\* C1: whenever loop() stands at a model call, every tool call of the model
\* turn it has read has exactly one result recorded, correlated by name and
\* position (Gemini variant) or by call_id (OpenAI variant): no model call is
\* issued with a dangling call.
C1_NoDanglingCalls ==
  /\ pc \in SendPcs => ResultsMatchCalls
  /\ pc = "create" => OutputsMatchCalls

\* C1 witness: the results of a two-call turn are about to be sent, in a later
\* iteration of the run.
C1_Witness ==
  /\ pc = "sending"
  /\ iterations >= 2
  /\ Len(functionCalls) = 2
  /\ functionCalls[1].name # functionCalls[2].name
  /\ ResultsMatchCalls

\* the position of the first task_completed call of the turn read, 0 if none
FirstCompletion ==
  IF \E i \in DOMAIN functionCalls : functionCalls[i].name = "task_completed"
    THEN CHOOSE i \in DOMAIN functionCalls :
           /\ functionCalls[i].name = "task_completed"
           /\ \A j \in 1..(i - 1) : functionCalls[j].name # "task_completed"
    ELSE 0

\* the state in which a run that met task_completed stands
EndedAtCompletion ==
  /\ pc = "done"
  /\ idx = FirstCompletion
  /\ Len(functionResponses) = idx - 1
  /\ \A i \in 1..(idx - 1) : functionResponses[i].name = functionCalls[i].name
  /\ Len(invoked) = idx
  /\ \A i \in 1..idx : invoked[i].call = functionCalls[i].name

\* C2: the for-of loop never moves past a task_completed call; the step that
\* reaches it sends nothing and ends the run, with the calls before it
\* processed in order, each with its result, and none after it touched; a run
\* that has ended takes no further step.
C2_CompletionEndsBatch ==
  /\ [](pc \in BatchPcs =>
          \A i \in 1..(idx - 1) :
            i \in DOMAIN functionCalls => functionCalls[i].name # "task_completed")
  /\ [](endReason = "completed" => EndedAtCompletion)
  /\ [][endReason' = "completed" =>
          /\ pc = "dispatch"
          /\ functionCalls[idx].name = "task_completed"
          /\ UNCHANGED << result, functionCalls, functionResponses, message,
                          sentTo, attempts >>]_vars
  /\ [][pc # "done"]_vars

\* C2 witness: a run ended by a task_completed that had another call after it
\* in its batch.
C2_Witness ==
  /\ endReason = "completed"
  /\ idx = 1
  /\ Len(functionCalls) = 2
  /\ functionCalls[2].name = "think"
  /\ Len(invoked) = 1

\* C3: a run that ended on the model's task_completed has invoked the
\* task_completed handler exactly once, with the arguments of that call, and
\* the tracker issue is closed.
C3_CompletionRunsHandler ==
  endReason = "completed" =>
    /\ Len(SelectSeq(invoked, LAMBDA v : v.handler = "task_completed")) = 1
    /\ invoked[Len(invoked)].handler = "task_completed"
    /\ invoked[Len(invoked)].args = functionCalls[idx].args
    /\ issueClosed

\* the calls of the turn read that the for-of loop has been through
Processed == 1..Len(functionResponses)

\* C4: every processed non-terminal call whose name is in the catalogue had
\* that tool's handler invoked, once, with the call's arguments; only names
\* outside the catalogue get the 'not found' result.
C4_LookupFindsCatalogueTools ==
  pc \in BatchPcs =>
    \A i \in Processed :
      /\ functionCalls[i].name \in CatalogueNames =>
           /\ invoked[i].handler = functionCalls[i].name
           /\ invoked[i].args = functionCalls[i].args
           /\ functionResponses[i].error # NotFoundResponse(functionCalls[i].name).error
      /\ functionCalls[i].name \notin CatalogueNames =>
           /\ invoked[i].handler = Undefined
           /\ functionResponses[i] = NotFoundResponse(functionCalls[i].name)

\* C5: a first model turn without tool calls never ends the run as "no more
\* function calls": the loop issues one corrective re-prompt (at most one in a
\* run), on a fresh conversation, and once that re-prompt is answered the loop
\* stands at its head again, holding the answer, with the fresh conversation
\* as its chat.
C5_ForcedRetry ==
  /\ forcePrompts <= 1
  /\ endReason = "noToolCalls" => iterations >= 2
  /\ (iterations = 1 /\ result = 1 /\ Len(functionCalls) = 0) =>
       /\ forcePrompts = 1
       /\ \/ pc \in {"force", "forceRetry"}
          \/ pc = "done" /\ endReason \in {"forceFailed", "exception"}
  /\ (forcePrompts = 1 /\ pc # "force") =>
       /\ message = ForceMessage \/ iterations >= 2
       /\ message = ForceMessage => sentTo = NewChat /\ sentTo # "chat"
  /\ (forcePrompts = 1 /\ pc = "loop" /\ iterations = 1) =>
       /\ result = 2
       /\ chat = NewChat
       /\ message = ForceMessage

\* C5 witness: the first turn had no calls, the re-prompt was answered, and the
\* loop went on to dispatch the answer's calls.
C5_Witness ==
  /\ forcePrompts = 1
  /\ iterations = 2
  /\ pc = "dispatch"
  /\ result = 2
  /\ chat = NewChat

\* a run of the bounds test: every turn read had calls, none of them
\* task_completed, and the run met no timeout and no failed model call
StubRun ==
  /\ onlyToolTurns
  /\ endReason \notin {"timeout", "sendFailed", "forceFailed", "exception"}

\* C6: the loop never runs more than MAX_ITERATIONS iterations and never holds
\* a model turn beyond the one after the last it processed; a run of the bounds
\* test ends after exactly MAX_ITERATIONS iterations, on the iteration cap,
\* with the bounds-exceeded line printed.
C6_BoundedIterations ==
  /\ iterations <= MAX_ITERATIONS
  /\ result <= iterations + 1
  /\ (pc = "done" /\ StubRun) =>
       /\ iterations = MAX_ITERATIONS
       /\ endReason = "maxIterations"
       /\ MaxIterationsLog \in logged
       /\ result = MAX_ITERATIONS + 1

\* C6 witness: a run of the bounds test has ended.
C6_Witness ==
  /\ pc = "done"
  /\ StubRun
  /\ iterations = MAX_ITERATIONS
  /\ MaxIterationsLog \in logged

\* C7: the bounds-exceeded line is printed exactly in the runs that the
\* iteration cap ended.
C7_BoundsStatusDistinct ==
  pc = "done" => (MaxIterationsLog \in logged <=> endReason = "maxIterations")

\* a call of a name no catalogue has
UnknownCall(call) == call.name \notin CatalogueNames

\* C8: a call of an unknown name runs no handler and gets the result
\* 'Tool <name> not found', which stays as recorded up to the send; the step
\* that processes it goes on to the next call of the batch without ending the
\* run; and a batch that was gone through is always sent.
C8_UnknownToolNotFatal ==
  /\ [](pc \in BatchPcs =>
          \A i \in Processed :
            UnknownCall(functionCalls[i]) =>
              /\ invoked[i].handler = Undefined
              /\ functionResponses[i].name = functionCalls[i].name
              /\ functionResponses[i].error =
                   "Tool " \o functionCalls[i].name \o " not found"
              /\ functionResponses[i].output = "Tool not available")
  /\ [][(pc = "dispatch" /\ UnknownCall(functionCalls[idx])) =>
          /\ idx' = idx + 1
          /\ Len(functionResponses') = idx
          /\ pc' \in {"dispatch", "sendResults"}
          /\ pc' = "dispatch" <=> idx' <= Len(functionCalls)
          /\ endReason' = "running"]_vars
  /\ [][pc = "sendResults" => pc' = "sending"]_vars
  /\ [][pc = "sending" => (message' = "functionResponses" /\ attempts' = 1)]_vars

\* C8 witness: the results of a batch with an unknown call followed by a known
\* one are about to be sent.
C8_Witness ==
  /\ pc = "sending"
  /\ Len(functionCalls) = 2
  /\ functionCalls[1].name = "frobnicate"
  /\ functionCalls[2].name = "think"
  /\ functionResponses[1].error = "Tool frobnicate not found"

HasInk(s) == \E i \in 1..Len(s) : SubSeq(s, i, i) \notin Whitespace

FirstSendPcs == {"initialSend", "force", "sending"}

RetryPcs == {"initialRetry", "forceRetry", "resultsRetry"}

RetryOf(site) ==
  CASE site = "initialSend" -> "initialRetry"
    [] site = "force"       -> "forceRetry"
    [] site = "sending"     -> "resultsRetry"

\* a first attempt either is answered, ends the run, or goes to its own retry
FirstAttemptStep ==
  pc \in FirstSendPcs =>
    /\ attempts' = 1
    /\ pc' \in RetryPcs => pc' = RetryOf(pc)
    /\ pc' \in RetryPcs => endReason' = "running"

\* a retry sends the same message to the same conversation after the
\* cooldown, and either is answered or ends the run with exit status 1
RetryStep ==
  pc \in RetryPcs =>
    /\ message' = message
    /\ sentTo' = sentTo
    /\ attempts' = 2
    /\ slept' = RATE_LIMIT_COOLDOWN
    /\ pc' \in {"loop", "done"}
    /\ pc' = "loop" => result' = result + 1
    /\ pc' = "done" =>
         (endReason' = "exception" /\ exitCode' = 1 /\ result' = result)

\* C11: at each of the three model-call sites a rate-limit failure leads to
\* one cooldown sleep and exactly one retry of the same message on the same
\* conversation; a retry that fails, rate-limited or not, is fatal (the run
\* ends with exit status 1); no message is attempted more than twice.
C11_OneRetryThenFatal ==
  /\ [](attempts <= 2)
  /\ [](pc \in RetryPcs => attempts = 1)
  /\ [][FirstAttemptStep]_vars
  /\ [][RetryStep]_vars

\* C11 witness: the retry of the first message failed as well, and the run
\* ended without any model turn.
C11_Witness ==
  /\ pc = "done"
  /\ result = 0
  /\ attempts = 2
  /\ slept = RATE_LIMIT_COOLDOWN
  /\ exitCode = 1

\* the exits of loop() taken because a model call failed other than by a
\* rate limit on its first attempt
ModelCallFailures == {"forceFailed", "sendFailed"}

\* C12: a model-call failure that is no rate-limit failure is fatal at every
\* call site: the run that ended on one has a non-zero exit status, and exit
\* status 0 is that of a run no model call of which failed.
C12_ModelFailureExitsNonZero ==
  pc = "done" =>
    /\ endReason \in ModelCallFailures => exitCode # 0
    /\ exitCode = 0 => endReason \notin ModelCallFailures

\* what has been dispatched of the turn read is its first calls, in the
\* order of emission, each handler run with its own call's arguments, and
\* the results recorded are those calls' results in that order
InEmissionOrder ==
  /\ Len(invoked) <= Len(functionCalls)
  /\ Len(functionResponses) = Len(invoked)
  /\ \A i \in DOMAIN invoked :
       /\ invoked[i].call = functionCalls[i].name
       /\ invoked[i].handler # Undefined =>
            /\ invoked[i].handler = functionCalls[i].name
            /\ invoked[i].args = functionCalls[i].args
       /\ functionResponses[i].name = functionCalls[i].name

\* one pass of the for-of body dispatches the call at idx and no other, after
\* all the dispatches before it
OneCallPerStep ==
  pc = "dispatch" =>
    /\ Len(invoked') = Len(invoked) + 1
    /\ SubSeq(invoked', 1, Len(invoked)) = invoked
    /\ invoked'[idx].call = functionCalls[idx].name
    /\ functionCalls' = functionCalls

C14_SeedNeverBlank ==
  /\ [](pc \in {"initialSend", "initialRetry"} =>
          /\ message # Undefined
          /\ HasInk(message)
          /\ fetched = "<rejected>" => message = FallbackTask
          /\ (fetched # "<rejected>" /\ ~HasInk(fetched)) => message = DefaultTask
          /\ (fetched # "<rejected>" /\ HasInk(fetched)) => message = fetched)
  /\ [][pc = "seed" =>
          (pc' = "initialSend" /\ fetched' # "<pending>" /\
           exitCode' = -1 /\ endReason' = "running")]_vars

\* C14 witness: the fetch gave a blank text and the default instruction is
\* about to be sent as the first user turn.
C14_Witness ==
  /\ pc = "initialSend"
  /\ fetched = " \n"
  /\ message = DefaultTask
  /\ attempts = 0

\* C15: no handler throws to its caller: whatever the filesystem and the
\* tracker do, the run of a handler ends by returning a text.
C15_HandlersNeverThrow ==
  ran.handler # Undefined => (~ran.threw /\ ran.value # Undefined)

\* the run of write_file that the storage accepted, and the run of read_file
\* that returned what the storage gave it
Wrote(run) == run.handler = "write_file" /\ run.stored /\ ~run.threw

Read(run) == run.handler = "read_file" /\ run.stored /\ ~run.threw

\* C16: write_file(p, c) that the storage accepted, followed at once by
\* read_file(p), returns exactly c.
C16_WriteReadRoundTrip ==
  [][(Wrote(ran) /\ Read(ran') /\ ran'.args.path = ran.args.path) =>
       ran'.value = ran.args.contents]_vars

\* s with its first occurrence of old replaced by new, every character of
\* new standing for itself
ReplaceFirstLiterally(s, old, new) ==
  LET starts == { i \in 1..(Len(s) - Len(old) + 1) :
                    SubSeq(s, i, i + Len(old) - 1) = old }
  IN IF starts = {} THEN s
     ELSE LET at == CHOOSE i \in starts : \A j \in starts : i <= j
          IN SubSeq(s, 1, at - 1) \o new \o SubSeq(s, at + Len(old), Len(s))

\* the step is a run of update_file that succeeded on an existing file
Updated ==
  /\ ran'.handler = "update_file"
  /\ ran'.stored
  /\ ~ran'.threw
  /\ << files', ran' >> # << files, ran >>

\* C17: update_file on an existing file replaces the first literal occurrence
\* of old_string by new_string taken literally, and leaves every other
\* character of the file, and every other file, as it was.
C17_UpdateReplacesFirstLiterally ==
  [][Updated =>
       /\ Utf8Decode(files'[ran'.args.path]) =
            ReplaceFirstLiterally(Utf8Decode(files[ran'.args.path]),
                                  ran'.args.old_string, ran'.args.new_string)
       /\ \A p \in Paths \ {ran'.args.path} : files'[p] = files[p]]_vars

\* C18: the bounds are checked before every model call: loop() never stands
\* at a model call (the initial send, the forced re-prompt, the sending of
\* tool results, or a retry of one) with the iteration counter at the maximum.
C18_NoSendAtMaxIterations ==
  pc \in SendPcs => iterations < MAX_ITERATIONS

\* the step reads a model turn without tool calls that is not the first turn
ReadsLaterEmptyTurn ==
  /\ pc = "loop"
  /\ iterations >= 1
  /\ iterations' = iterations + 1
  /\ functionCalls' = << >>

\* C19: a model turn without tool calls that is not the first turn of the run
\* (the answer to the forced re-prompt included) ends the run at once: no
\* corrective re-prompt, no further model call, no handler run, the issue
\* left as it was, exit status 0.
C19_LaterEmptyTurnEndsRun ==
  /\ [][ReadsLaterEmptyTurn =>
          /\ pc' = "done"
          /\ endReason' = "noToolCalls"
          /\ exitCode' = 0
          /\ forcePrompts' = forcePrompts
          /\ attempts' = attempts
          /\ sentTo' = sentTo
          /\ result' = result
          /\ invoked' = << >>
          /\ issueClosed' = issueClosed
          /\ CompletedLog \notin logged']_vars
  /\ [][pc = "done" => UNCHANGED vars]_vars
  /\ [](forcePrompts <= 1)

\* C19 witness: the answer to the forced re-prompt had no tool calls either,
\* and the run has ended.
C19_Witness ==
  /\ pc = "done"
  /\ endReason = "noToolCalls"
  /\ forcePrompts = 1
  /\ iterations = 2
  /\ result = 2
  /\ sentTo = NewChat

\* C20: the wall-clock budget runs from the start of the run: at the top of
\* an iteration reached more than TIMEOUT_MS after the run started, the loop
\* ends with the timeout message and dispatches no call of the pending turn.
C20_BudgetFromRunStart ==
  [][(pc = "loop" /\ LoopCondition(iterations) /\ sinceRunStart > TIMEOUT_MS) =>
       /\ pc' = "done"
       /\ endReason' = "timeout"
       /\ TimeoutLog \in logged'
       /\ invoked' = invoked]_vars

\* C21: after a forced re-prompt the first conversation is superseded: the
\* re-prompt and every later message go to the fresh conversation, whether
\* the re-prompt was answered at once or on its retry, and the loop never
\* goes back to the first conversation.
C21_FreshChatSupersedes ==
  /\ [][(pc \in SendPcs /\ forcePrompts = 1) => sentTo' = NewChat]_vars
  /\ [][(pc \in {"force", "forceRetry"} /\ pc' = "loop") => chat' = NewChat]_vars
  /\ [][chat = NewChat => chat' = NewChat]_vars
  /\ [](forcePrompts = 0 => chat = "chat")

\* C21 witness: tool results of a later iteration have been sent to the fresh
\* conversation.
C21_Witness ==
  /\ forcePrompts = 1
  /\ iterations >= 3
  /\ message = "functionResponses"
  /\ sentTo = NewChat
  /\ chat = NewChat

\* the delay loop() awaits right before the model call it makes at a step
DelayBefore(site) ==
  IF site \in RetryPcs THEN RATE_LIMIT_COOLDOWN
  ELSE IF site = "initialSend" THEN 0
  ELSE RATE_LIMIT_DELAY

\* C22: every model call but the first of the run is made after a delay that
\* follows the previous model call: tool results and the forced re-prompt
\* after the fixed pacing delay, a rate-limit retry after the cooldown.
C22_PacedModelCalls ==
  /\ [][(pc \in SendPcs) => slept' = DelayBefore(pc)]_vars
  /\ [][(pc \in SendPcs /\ pc # "initialSend") => slept' > 0]_vars

\* C22 witness: tool results were sent after the pacing delay, were rate
\* limited, and their retry was sent after the cooldown.
C22_Witness ==
  /\ message = "functionResponses"
  /\ attempts = 2
  /\ slept = RATE_LIMIT_COOLDOWN
  /\ pc = "loop"
  /\ result >= 2

\* C23: every run terminates: whatever the model answers and however the
\* handlers end, as long as each awaited call returns or fails, loop() ends
\* and the process has exited.
C23_RunTerminates == <>(pc = "done" /\ exitCode \in {0, 1})

\* C23 witness: a run that used all its iterations has ended.
C23_Witness ==
  /\ pc = "done"
  /\ endReason = "maxIterations"
  /\ iterations = MAX_ITERATIONS
  /\ exitCode = 0

\* the runs of the task_completed handler, the only one that calls closeIssue
CompletionRuns == { i \in DOMAIN invoked : invoked[i].handler = "task_completed" }

\* the ends of a run that no task_completed call brought about
OtherEnds ==
  {"noToolCalls", "maxIterations", "timeout", "forceFailed", "sendFailed",
   "noResponses"}

\* C24: the issue is closed only in answer to a task_completed call of the
\* model: the handler that closes it runs only for such a call and ends the
\* run, and a run that ended for want of tool calls, on a bound, on the
\* timeout or on a failed model call never ran it and left the issue open.
C24_ClosedOnlyOnCompletion ==
  /\ \A i \in CompletionRuns :
       /\ i = Len(invoked)
       /\ invoked[i].call = "task_completed"
       /\ functionCalls[idx].name = "task_completed"
       /\ pc = "done"
       /\ endReason \in {"completed", "exception"}
  /\ issueClosed =>
       /\ CompletionRuns # {}
       /\ ~invoked[Len(invoked)].threw
       /\ endReason = "completed"
  /\ endReason \in OtherEnds => (~issueClosed /\ CompletionRuns = {})
  /\ (endReason = "exception" /\ CompletionRuns = {}) => ~issueClosed

\* C24 witness: the model called task_completed, the handler ran, the issue
\* is closed and the run has ended.
C24_Witness ==
  /\ pc = "done"
  /\ endReason = "completed"
  /\ issueClosed
  /\ CompletionRuns = {Len(invoked)}

====
